---------------------------- MODULE Spec2Model ----------------------------
(* Model of scripts/update_news.py: the daily updater that asks a text     *)
(* generator for news sections, renders them as HTML cards and splices     *)
(* the date and the cards into index.html with two re.sub calls.           *)
(*                                                                         *)
(* Text is modelled as a sequence of tokens.  Every token is an atomic     *)
(* piece of text that the two regular expressions of the script can only   *)
(* match as a whole:                                                       *)
(*   "DS" <span id="date-text">    "SE" </span>                            *)
(*   "M"  <!-- What's Hot -->      "DV" </div>      "BD" </body>           *)
(*   "HD","hb","HT"  other markup of the page (head, body start, </html>)  *)
(*   "cardo","cardc","lblo","h3o","h3c","cnto","po","pc","srco","ao","ac"  *)
(*        the tags of the card skeleton of build_card_html                 *)
(*   "nl","sp12","ws4","ws8","ws12","ws16","ws20"  white space             *)
(*   "x","y","n","I" letters, "1" a digit, "bs" a backslash,               *)
(*   "cs" the text `, `, "qgt" the text `">`, "d0","d1","d2" date texts    *)
EXTENDS Integers, Sequences, FiniteSets, TLC

VARIABLES file, pc, run, date_info, news_content, html_in, html, cards_html,
          err, file0

vars == <<file, pc, run, date_info, news_content, html_in, html, cards_html,
          err, file0>>

(* ------------------------------ bounds -------------------------------- *)
MaxSections == 8
MaxRuns == 2

(* -------------------------- program constants ------------------------- *)
CollapseThreshold == 4

(* ------------------------------ tokens -------------------------------- *)
SpaceTokens == {"nl", "sp12", "ws4", "ws8", "ws12", "ws16", "ws20"}

LtTokens == {"DS", "SE", "M", "DV", "BD", "HD", "hb", "HT", "cardo", "cardc",
             "lblo", "h3o", "h3c", "cnto", "po", "pc", "srco", "ao", "ac"}

LetterTokens == {"x", "y", "n", "I", "d0", "d1", "d2"}

IsSpace(t) == t \in SpaceTokens

IsLt(t) == t \in LtTokens

Tok(h, k) == IF k >= 1 /\ k <= Len(h) THEN h[k] ELSE "EOF"

MinOf(S) == CHOOSE a \in S : \A b \in S : a <= b

(* index of the first token at or after i that satisfies the test, else 0 *)
FirstIn(S) == IF S = {} THEN 0 ELSE MinOf(S)

RECURSIVE Join(_, _)
Join(parts, sep) ==
  IF parts = <<>> THEN <<>>
  ELSE IF Len(parts) = 1 THEN parts[1]
  ELSE parts[1] \o sep \o Join(Tail(parts), sep)

(* ------------------------- get_date_info ------------------------------ *)
Dates == {"d1", "d2"}

(* ------------------------- build_card_html ---------------------------- *)
HasFields(section) ==
  /\ {"label", "headline", "paragraphs", "sources"} \subseteq DOMAIN section
  /\ \A k \in 1..Len(section.sources) :
        {"name", "url"} \subseteq DOMAIN section.sources[k]

build_card_html(section, collapsed) ==
  LET paragraphs_html ==
        Join([k \in 1..Len(section.paragraphs) |->
                <<"po">> \o section.paragraphs[k] \o <<"pc">>], <<"ws20">>)
      sources_html ==
        Join([k \in 1..Len(section.sources) |->
                <<"ao">> \o section.sources[k].url \o <<"qgt">>
                  \o section.sources[k].name \o <<"ac">>], <<"cs">>)
  IN <<"sp12", IF collapsed THEN "cardc" ELSE "cardo">>
       \o <<"ws16", "lblo">> \o section.label \o <<"DV">>
       \o <<"ws16", "h3o">> \o section.headline \o <<"h3c">>
       \o <<"ws16", "cnto", "ws20">> \o paragraphs_html
       \o <<"ws16", "DV">>
       \o <<"ws16", "srco">> \o sources_html \o <<"DV">>
       \o <<"ws12", "DV">>

(* variant: the comparison excludes the threshold index itself *)
CollapsedAfterThreshold(i) == i > CollapseThreshold

Collapsed(i) == i >= CollapseThreshold

BuildCards(sections) ==
  [k \in 1..Len(sections) |-> build_card_html(sections[k], Collapsed(k - 1))]

(* ---------------------- re.sub with date_pattern ---------------------- *)
SkipNonLt(h, k) ==
  MinOf({j \in k..(Len(h) + 1) : j = Len(h) + 1 \/ IsLt(Tok(h, j))})

(* end of the match of date_pattern starting at i, 0 if there is none *)
DateMatchEnd(h, i) ==
  IF Tok(h, i) # "DS" THEN 0
  ELSE LET k == SkipNonLt(h, i + 1)
       IN IF k > i + 1 /\ Tok(h, k) = "SE" THEN k ELSE 0

(* variant: the new span is written without its closing tag *)
NewDateUnclosed(d) == <<"DS", d>>

NewDate(d) == <<"DS", d, "SE">>

(* start of the leftmost match of date_pattern at or after i, else 0 *)
DateMatchStart(h, i) == FirstIn({j \in i..Len(h) : DateMatchEnd(h, j) > 0})

RECURSIVE DateSubFrom(_, _, _)
DateSubFrom(h, i, nd) ==
  LET j == DateMatchStart(h, i)
  IN IF j = 0 THEN SubSeq(h, i, Len(h))
     ELSE SubSeq(h, i, j - 1) \o nd
            \o DateSubFrom(h, DateMatchEnd(h, j) + 1, nd)

DateSub(h, d) == DateSubFrom(h, 1, NewDate(d))

(* --------------------- re.sub with cards_pattern ---------------------- *)
SkipSpace(h, k) ==
  MinOf({j \in k..(Len(h) + 1) : j = Len(h) + 1 \/ ~IsSpace(Tok(h, j))})

(* end of the match of </div>\s*</div>\s*</div>\s*</body> at s, else 0 *)
ClosingEnd(h, s) ==
  IF Tok(h, s) # "DV" THEN 0
  ELSE LET k1 == SkipSpace(h, s + 1)
       IN IF Tok(h, k1) # "DV" THEN 0
          ELSE LET k2 == SkipSpace(h, k1 + 1)
               IN IF Tok(h, k2) # "DV" THEN 0
                  ELSE LET k3 == SkipSpace(h, k2 + 1)
                       IN IF Tok(h, k3) = "BD" THEN k3 ELSE 0

FindClosing(h, s) == FirstIn({j \in s..Len(h) : ClosingEnd(h, j) > 0})

FindMarker(h, i) == FirstIn({j \in i..Len(h) : h[j] = "M"})

(* the replacement string of update_index_html, before template expansion *)
Scaffold == <<"ws8", "DV", "ws4", "DV", "nl", "BD">>

Replacement(cards) ==
  <<"M", "nl">> \o Join(cards, <<"nl", "nl">>) \o Scaffold

(* re's expansion of a replacement template: backslash escapes and group  *)
(* references are processed, an unknown escape of a letter is an error    *)
RECURSIVE ExpandFrom(_, _)
ExpandFrom(t, i) ==
  IF i > Len(t) THEN [ok |-> TRUE, out |-> <<>>]
  ELSE IF t[i] # "bs"
    THEN LET j == FirstIn({k \in i..Len(t) : t[k] = "bs"})
         IN IF j = 0 THEN [ok |-> TRUE, out |-> SubSeq(t, i, Len(t))]
            ELSE LET r == ExpandFrom(t, j)
                 IN [ok |-> r.ok, out |-> SubSeq(t, i, j - 1) \o r.out]
  ELSE LET c == Tok(t, i + 1)
       IN IF c = "EOF" THEN [ok |-> FALSE, out |-> <<>>]
          ELSE IF c = "bs"
            THEN LET r == ExpandFrom(t, i + 2)
                 IN [ok |-> r.ok, out |-> <<"bs">> \o r.out]
          ELSE IF c = "n"
            THEN LET r == ExpandFrom(t, i + 2)
                 IN [ok |-> r.ok, out |-> <<"nl">> \o r.out]
          ELSE IF c = "1"
            THEN IF Tok(t, i + 2) = "1"
                   THEN IF Tok(t, i + 3) = "1"
                          THEN LET r == ExpandFrom(t, i + 4)
                               IN [ok |-> r.ok, out |-> <<"I">> \o r.out]
                          ELSE [ok |-> FALSE, out |-> <<>>]
                   ELSE LET r == ExpandFrom(t, i + 2)
                        IN [ok |-> r.ok, out |-> <<"M">> \o r.out]
          ELSE IF c \in LetterTokens THEN [ok |-> FALSE, out |-> <<>>]
          ELSE LET r == ExpandFrom(t, i + 1)
               IN [ok |-> r.ok, out |-> <<"bs">> \o r.out]

Expand(t) == ExpandFrom(t, 1)

(* start of the leftmost match of cards_pattern at or after i, else 0 *)
MatchStart(h, i) ==
  LET j == FindMarker(h, i)
  IN IF j = 0 THEN 0
     ELSE IF FindClosing(h, j + 1) = 0 THEN 0 ELSE j

MatchEnd(h, j) == ClosingEnd(h, FindClosing(h, j + 1))

RECURSIVE CardsSubFrom(_, _, _)
CardsSubFrom(h, i, repl) ==
  LET j == MatchStart(h, i)
  IN IF j = 0 THEN SubSeq(h, i, Len(h))
     ELSE SubSeq(h, i, j - 1) \o repl
            \o CardsSubFrom(h, MatchEnd(h, j) + 1, repl)

CardsSub(h, repl) == CardsSubFrom(h, 1, repl)

(* update_index_html without its file access: both substitutions *)
Patch(doc, d, sections) ==
  LET r == Expand(Replacement(BuildCards(sections)))
  IN [ok |-> r.ok,
      html |-> IF r.ok THEN CardsSub(DateSub(doc, d), r.out) ELSE doc]

(* ---------------------- the content of a response --------------------- *)
Src(n, u) == [name |-> n, url |-> u]

Sec(l, h, ps, ss) == [label |-> l, headline |-> h, paragraphs |-> ps,
                      sources |-> ss]

PlainA == Sec(<<"x">>, <<"x">>, <<<<"x">>>>, <<Src(<<"x">>, <<"x">>)>>)

PlainB == Sec(<<"y">>, <<"y">>, <<<<"y">>, <<"x">>>>,
              <<Src(<<"x">>, <<"x">>), Src(<<"y">>, <<"x">>)>>)

EmptySec == Sec(<<"x">>, <<"y">>, <<>>, <<>>)

PlainSections(n) == [k \in 1..n |-> IF k % 2 = 1 THEN PlainA ELSE PlainB]

SpecialSections ==
  { <<Sec(<<"x">>, <<"x", "bs", "bs", "y">>, <<<<"x">>>>, <<>>)>>,
    <<Sec(<<"x">>, <<"x", "bs", "1", "y">>, <<<<"x">>>>, <<>>)>>,
    <<Sec(<<"x">>, <<"x", "bs", "n", "y">>, <<<<"x">>>>, <<>>)>>,
    <<Sec(<<"x">>, <<"x", "bs", "x">>, <<<<"x">>>>, <<>>)>>,
    <<Sec(<<"x">>, <<"x", "bs">>, <<<<"x">>>>, <<>>)>>,
    <<Sec(<<"x">>, <<"x">>, <<<<"DS", "x", "SE">>>>, <<>>)>>,
    <<Sec(<<"x">>, <<"x">>, <<<<"DV", "DV", "DV", "BD", "M", "y">>>>, <<>>)>>,
    <<EmptySec, PlainA>> }

BadSection == [label |-> <<"x">>, paragraphs |-> <<<<"x">>>>, sources |-> <<>>]

(* the text returned by generate_news_content once the code fence is      *)
(* stripped, given by what json.loads makes of it: text that is not JSON,  *)
(* an object without "sections", or an object with a list of sections     *)
Payloads ==
  { [kind |-> "text"] }
    \cup { [kind |-> "json", data |-> [other |-> <<>>]] }
    \cup { [kind |-> "json", data |-> [sections |-> <<PlainA, BadSection>>]] }
    \cup { [kind |-> "json", data |-> [sections |-> PlainSections(n)]] :
             n \in 0..MaxSections }
    \cup { [kind |-> "json", data |-> [sections |-> s]] : s \in SpecialSections }

(* --------------------------- index.html ------------------------------- *)
OldCards == build_card_html(PlainB, FALSE)

Template ==
  <<"HD", "DS", "d0", "SE", "hb", "ws8", "M", "nl">> \o OldCards
    \o <<"ws8", "DV", "ws4", "DV", "nl", "BD", "nl", "HT">>

NoDateDoc ==
  <<"HD", "hb", "ws8", "M", "nl">> \o OldCards
    \o <<"ws8", "DV", "ws4", "DV", "nl", "BD", "nl", "HT">>

NoMarkerDoc ==
  <<"HD", "DS", "d0", "SE", "hb", "ws8">> \o OldCards
    \o <<"ws8", "DV", "ws4", "DV", "nl", "BD", "nl", "HT">>

NoScaffoldDoc ==
  <<"HD", "DS", "d0", "SE", "hb", "ws8", "M", "nl">> \o OldCards
    \o <<"nl", "HT">>

TwoScaffoldDoc ==
  <<"HD", "DS", "d0", "SE", "hb", "ws8", "M", "nl">> \o OldCards
    \o <<"ws8", "DV", "ws4", "DV", "nl", "BD", "y", "DV", "DV", "DV", "BD",
         "nl", "HT">>

Documents == {Template, NoDateDoc, NoMarkerDoc, NoScaffoldDoc, TwoScaffoldDoc}

(* ------------------------------ the run ------------------------------- *)
Init ==
  /\ file \in Documents
  /\ file0 = file
  /\ pc = "start"
  /\ run = 1
  /\ date_info = "none"
  /\ news_content = [kind |-> "none"]
  /\ html_in = <<>>
  /\ html = <<>>
  /\ cards_html = <<>>
  /\ err = "none"

(* main: get_date_info, then generate_news_content *)
Generate ==
  /\ pc = "start"
  /\ \E d \in Dates :
       /\ date_info' = d
       /\ \/ /\ pc' = "failed"
             /\ err' = "RequestError"
             /\ UNCHANGED news_content
          \/ /\ \E p \in Payloads : news_content' = p
             /\ pc' = "generated"
             /\ UNCHANGED err
  /\ UNCHANGED <<file, run, html_in, html, cards_html, file0>>

(* update_index_html: read index.html and substitute the date *)
ReadAndDate ==
  /\ pc = "generated"
  /\ html_in' = file
  /\ html' = DateSub(file, date_info)
  /\ pc' = "dated"
  /\ UNCHANGED <<file, run, date_info, news_content, cards_html, err, file0>>

(* update_index_html: json.loads and the loop over data["sections"] *)
ParseAndBuild ==
  /\ pc = "dated"
  /\ IF news_content.kind # "json"
       THEN /\ pc' = "failed"
            /\ err' = "JSONDecodeError"
            /\ UNCHANGED cards_html
       ELSE IF "sections" \notin DOMAIN news_content.data
         THEN /\ pc' = "failed"
              /\ err' = "KeyError"
              /\ UNCHANGED cards_html
       ELSE IF \E k \in 1..Len(news_content.data.sections) :
                  ~HasFields(news_content.data.sections[k])
         THEN /\ pc' = "failed"
              /\ err' = "KeyError"
              /\ UNCHANGED cards_html
       ELSE /\ cards_html' = BuildCards(news_content.data.sections)
            /\ pc' = "built"
            /\ UNCHANGED err
  /\ UNCHANGED <<file, run, date_info, news_content, html_in, html, file0>>

(* variant: the text is saved although the substitution raised *)
SubCardsSavesOnError ==
  /\ pc = "built"
  /\ LET r == Expand(Replacement(cards_html))
     IN IF r.ok
          THEN /\ html' = CardsSub(html, r.out)
               /\ pc' = "patched"
               /\ UNCHANGED <<err, file>>
          ELSE /\ pc' = "failed"
               /\ err' = "re.error"
               /\ file' = html
               /\ UNCHANGED html
  /\ UNCHANGED <<run, date_info, news_content, html_in, cards_html, file0>>

(* update_index_html: re.sub(cards_pattern, replacement, html, DOTALL) *)
SubCards ==
  /\ pc = "built"
  /\ LET r == Expand(Replacement(cards_html))
     IN IF r.ok
          THEN /\ html' = CardsSub(html, r.out)
               /\ pc' = "patched"
               /\ UNCHANGED err
          ELSE /\ pc' = "failed"
               /\ err' = "re.error"
               /\ UNCHANGED html
  /\ UNCHANGED <<file, run, date_info, news_content, html_in, cards_html,
                 file0>>

(* update_index_html: open("index.html", "w") and f.write(html) *)
WriteFile ==
  /\ pc = "patched"
  /\ file' = html
  /\ pc' = "done"
  /\ UNCHANGED <<run, date_info, news_content, html_in, html, cards_html,
                 err, file0>>

(* the script is started again (the next daily run) *)
NextRun ==
  /\ pc \in {"done", "failed"}
  /\ run < MaxRuns
  /\ run' = run + 1
  /\ pc' = "start"
  /\ file0' = file
  /\ date_info' = "none"
  /\ news_content' = [kind |-> "none"]
  /\ html_in' = <<>>
  /\ html' = <<>>
  /\ cards_html' = <<>>
  /\ err' = "none"
  /\ UNCHANGED file

Next ==
  \/ Generate
  \/ ReadAndDate
  \/ ParseAndBuild
  \/ SubCards
  \/ WriteFile
  \/ NextRun

Spec == Init /\ [][Next]_vars

TypeOK ==
  /\ pc \in {"start", "generated", "dated", "built", "patched", "done",
             "failed"}
  /\ run \in 1..MaxRuns

(* --------------------------- vocabulary ------------------------------- *)
Patched == pc \in {"patched", "done"}

Sections == news_content.data.sections

(* the text the cards substitution is applied to *)
HtmlDate == DateSub(html_in, date_info)

(* the replacement after re has expanded it *)
Expanded == Expand(Replacement(cards_html)).out

Matched == MatchStart(HtmlDate, 1) > 0

DateCount(h) == Cardinality({j \in 1..Len(h) : DateMatchEnd(h, j) > 0})

AllDatesAre(h, d) ==
  \A j \in 1..Len(h) :
     DateMatchEnd(h, j) > 0 => SubSeq(h, j, DateMatchEnd(h, j)) = NewDate(d)

MaskDate(h) == DateSub(h, "*")

NotSpace(t) == ~IsSpace(t)

Tags(h) == SelectSeq(h, NotSpace)

AllAnchors(h) == DateCount(h) >= 1 /\ MatchStart(h, 1) > 0

(* ------------------------------ claims -------------------------------- *)

C2_MissingAnchorNotWritten ==
  pc = "done" => (DateCount(html_in) >= 1 /\ MatchStart(html_in, 1) > 0)

(* C3 (as claimed): after the cards substitution the region starting at   *)
(* the marker is the marker, a newline, the rendered cards in order       *)
(* joined by a blank line, and the closing scaffold, with every card      *)
(* unaltered.                                                             *)
C3_CardsRegionExact ==
  (Patched /\ Matched) =>
     LET j == MatchStart(HtmlDate, 1)
         region == Replacement(cards_html)
     IN SubSeq(html, j, j + Len(region) - 1) = region

(* C4 (as claimed): the patch changes only the content of the date span   *)
(* before the marker and the cards region; the text before the marker     *)
(* (date content aside) and the text after the closing scaffold are the   *)
(* same in input and output.                                              *)
C4_FrameUnchanged ==
  (Patched /\ MatchStart(html_in, 1) > 0) =>
     LET j == MatchStart(html_in, 1)
         before_in == SubSeq(html_in, 1, j - 1)
         after_in == SubSeq(html_in, MatchEnd(html_in, j) + 1, Len(html_in))
         before_out == SubSeq(html, 1, FindMarker(html, 1) - 1)
     IN /\ MaskDate(before_out) = MaskDate(before_in)
        /\ html = before_out \o Expanded \o after_in

(* C5 (as claimed): when the closing sequence occurs more than once after *)
(* the marker, only the first occurrence bounds the replaced region and   *)
(* everything after it is left unchanged by the cards substitution.       *)
C5_FirstClosingOnly ==
  (Patched /\ Matched) =>
     LET j == MatchStart(HtmlDate, 1)
         e == MatchEnd(HtmlDate, j)
     IN FindClosing(HtmlDate, e + 1) > 0 =>
          html = SubSeq(HtmlDate, 1, j - 1) \o Expanded
                   \o SubSeq(HtmlDate, e + 1, Len(HtmlDate))

(* C6 (as claimed): a document with exactly one date span has exactly one *)
(* date span after the patch, showing the new date, whatever the section  *)
(* content.                                                               *)
C6_DateSpanOnce ==
  (Patched /\ DateCount(html_in) = 1) =>
     (DateCount(html) = 1 /\ AllDatesAre(html, date_info))

(* C6 (amended): a document with exactly one date span, which does not    *)
(* lie after the marker comment, patched with cards whose text as         *)
(* inserted (after re has expanded the backslash escapes) contains        *)
(* nothing that matches the date span, has exactly one date span after    *)
(* the patch, showing the new date.                                       *)
C6_SpanBeforeMarker ==
  /\ DateCount(html_in) = 1
  /\ \/ FindMarker(html_in, 1) = 0
     \/ DateMatchStart(html_in, 1) < FindMarker(html_in, 1)
  /\ DateCount(Expanded) = 0

C6_DateSpanOnceAmended ==
  (Patched /\ C6_SpanBeforeMarker) =>
     (DateCount(html) = 1 /\ AllDatesAre(html, date_info))

C6_Witness ==
  /\ pc = "patched"
  /\ C6_SpanBeforeMarker
  /\ Matched
  /\ Len(cards_html) >= 2
  /\ ~AllDatesAre(html_in, date_info)
  /\ run = 2

(* C7 (as claimed): patching the patched document again with the same     *)
(* date and sections gives the same document.                             *)
C7_Idempotent ==
  Patched => Patch(html, date_info, Sections).html = html

(* C8: the card of the section at index i carries the collapsed class     *)
(* exactly when i >= 4.                                                   *)
C8_CollapseFromFour ==
  pc \in {"built", "patched", "done"} =>
     \A k \in 1..Len(cards_html) :
        /\ cards_html[k][2] \in {"cardo", "cardc"}
        /\ (cards_html[k][2] = "cardc") <=> (k - 1 >= 4)

C8_Witness ==
  /\ pc = "built"
  /\ Len(cards_html) = 8
  /\ \A k \in 1..4 : cards_html[k][2] = "cardo"
  /\ \A k \in 5..8 : cards_html[k][2] = "cardc"

(* C9 (as claimed): the closing scaffold written at the end of the        *)
(* replaced region is the tag sequence that was matched as its end        *)
(* boundary.                                                              *)
C9_ScaffoldVerbatim ==
  (Patched /\ Matched) =>
     LET j == MatchStart(HtmlDate, 1)
         s == FindClosing(HtmlDate, j + 1)
     IN Tags(SubSeq(HtmlDate, s, MatchEnd(HtmlDate, j))) = Tags(Scaffold)

(* C10 (as claimed): a run that starts from a document with the date      *)
(* span, the marker and the closing sequence writes a document that has   *)
(* all three again.                                                       *)
C10_AnchorsPreserved ==
  (pc = "done" /\ AllAnchors(html_in)) => AllAnchors(file)

=============================================================================
